---- MODULE Spec2Model ----
(***************************************************************************)
(* State-machine model of cphus.crud.ListingsManager (src/src/cphus/crud.py) *)
(* The in-memory polars DataFrame is a sequence of rows plus the set of its *)
(* column names (a value of a column the table lacks is null in the row);   *)
(* the durable file is a tagged snapshot; datetime.now() is a               *)
(* counter that advances with every reading. The ingestion workflow of     *)
(* src/main.py (search_and_send_listings) is a process over the same store. *)
(***************************************************************************)
EXTENDS Integers, Sequences, FiniteSets

VARIABLES
    df,      \* self.df: the rows of the table, in insertion order
    cols,    \* self.df.columns, as a set
    file,    \* the file at storage_path: [fmt, cols, rows]
    suffix,  \* storage_path.suffix, or "none" when storage_path is None
    now,     \* the last value datetime.now() returned
    last,    \* the last call: its name, arguments and outcome
    wf,      \* search_and_send_listings: the position and the locals of the run
    pend,    \* an add_new_listings call in progress next to another writer
    rd       \* a read call in progress next to a writer

vars == <<df, cols, file, suffix, now, last, wf, pend, rd>>

----------------------------------------------------------------------------
\* Bounds of the model.

\* datetime.now() is read at most MaxClock times.
MaxClock == 2

\* The table holds at most MaxRows rows.
MaxRows == 3

----------------------------------------------------------------------------
\* Values.

\* None / a polars null.
Null == "<null>"

\* A null in an integer column; also None as a limit or an offset.
NullInt == 0 - 1

\* The dictionary has no entry for the column.
Missing == "<missing>"

\* ListingsManager.unique_key (default "listing_url").
unique_key == "listing_url"

CREATED_AT_COLUMN == "created_at"

UPDATED_AT_COLUMN == "updated_at"

\* Non-null key values the callers use; "" is the value Python treats as false.
KeyVals == {"", "a", "b"}

\* A record as a caller passes it: a dictionary with a rent (possibly None) and,
\* possibly, a key.
Rec(key, rent) == [listing_url |-> key, rent |-> rent]

\* A record with one more entry, the floor.
RecFloor(key, rent, floor) == [listing_url |-> key, rent |-> rent, floor |-> floor]

\* The dictionary has an entry for the floor.
HasFloor(record) == "floor" \in DOMAIN record

\* dict.get("floor"): None when the entry is missing.
GetFloor(record) == IF HasFloor(record) THEN record.floor ELSE NullInt

\* The records callers pass to create.
Records ==
    { Rec(Missing, 1), Rec(Null, 1), Rec("", 1), Rec("a", 1), Rec("a", 2), Rec("b", 1),
      Rec("b", NullInt) }

\* The batches callers pass to create_many, find_new_listings, add_new_listings:
\* the empty batch, every single record, and pairs that repeat a key, mix a stored
\* key with a fresh one, or hold a record whose key is null or missing.
Batches ==
    {<<>>} \cup { <<r>> : r \in Records }
    \cup { <<Rec("a", 1), Rec("a", 2)>>,
           <<Rec("a", 2), Rec("b", 1)>>,
           <<Rec("", 1), Rec("b", 1)>>,
           <<Rec("b", 1), Rec(Null, 1)>>,
           <<Rec("b", 1), Rec(Missing, 1)>>,
           <<Rec(Missing, 1), Rec(Missing, 1)>> }

\* Python truthiness of a key value: None and "" are false.
Truthy(v) == v \notin {Null, Missing, ""}

\* dict.get(unique_key): None when the entry is missing.
Get(record) == IF record.listing_url = Missing THEN Null ELSE record.listing_url

\* Set of the elements of a sequence.
Range(s) == { s[i] : i \in 1..Len(s) }

\* Series.to_list() of the unique_key column.
KeyList(rows) == [i \in 1..Len(rows) |-> rows[i].listing_url]

----------------------------------------------------------------------------
\* polars expressions over one value. A result is "T", "F" or "N" (null);
\* DataFrame.filter keeps the rows whose predicate is "T".

Not3(b) == IF b = "N" THEN "N" ELSE IF b = "T" THEN "F" ELSE "T"

\* pl.col(c) == value
Eq3(v, w) == IF v = Null \/ w = Null THEN "N" ELSE IF v = w THEN "T" ELSE "F"

\* pl.col(c).is_in(values): a null on the left propagates.
IsIn3(v, values) == IF v = Null THEN "N" ELSE IF v \in values THEN "T" ELSE "F"

----------------------------------------------------------------------------
\* pl.DataFrame(list of dicts): the columns are the union of the dicts' keys,
\* a missing entry becomes null.

FrameCols(records) ==
    (IF \E i \in 1..Len(records) : records[i].listing_url # Missing
        THEN {unique_key} ELSE {})
    \cup (IF Len(records) > 0 THEN {"rent"} ELSE {})
    \cup (IF \E i \in 1..Len(records) : HasFloor(records[i]) THEN {"floor"} ELSE {})

FrameRows(records) ==
    [i \in 1..Len(records) |->
        [listing_url |-> Get(records[i]), rent |-> records[i].rent,
         floor |-> GetFloor(records[i])]]

\* DataFrame.to_dicts(): one dict per row, with every column of the frame.
ToDicts(frameCols, rows) ==
    [i \in 1..Len(rows) |->
        LET key == IF unique_key \in frameCols THEN rows[i].listing_url ELSE Missing
        IN IF "floor" \in frameCols
           THEN RecFloor(key, rows[i].rent, rows[i].floor)
           ELSE Rec(key, rows[i].rent)]

\* A record with its two timestamps, as a row of the table.
Stamp(record, t) ==
    [listing_url |-> Get(record), rent |-> record.rent, floor |-> GetFloor(record),
     created_at |-> t, updated_at |-> t]

----------------------------------------------------------------------------
\* The durable file.

NoFile == [fmt |-> "absent", cols |-> {}, rows |-> <<>>]

\* write_csv renders every value as text; a null is written as the empty field.
CsvRows(rows) ==
    [i \in 1..Len(rows) |->
        [rows[i] EXCEPT !.listing_url = IF @ = Null THEN "" ELSE @]]

\* _save: the file after a save of the table (rows, cs). Nothing is written when
\* there is no storage_path or the table is empty.
_save(rows, cs) ==
    IF suffix # "none" /\ Len(rows) > 0
    THEN IF suffix = ".parquet"
         THEN [fmt |-> "parquet", cols |-> cs, rows |-> rows]
         ELSE [fmt |-> "csv", cols |-> cs, rows |-> CsvRows(rows)]
    ELSE file

\* _save writes the file: the condition of its if.
Writes(rows) == suffix # "none" /\ Len(rows) > 0

\* _load, as __init__ runs it on a fresh (empty) table: read_parquet of the file at
\* storage_path when it exists. read_parquet raises on a file that is not parquet.
_load(f) ==
    IF suffix # "none" /\ f.fmt # "absent"
    THEN IF f.fmt = "parquet"
         THEN [res |-> "ok", df |-> f.rows, cols |-> f.cols]
         ELSE [res |-> "LoadError", df |-> <<>>, cols |-> {}]
    ELSE [res |-> "ok", df |-> <<>>, cols |-> {}]

----------------------------------------------------------------------------
\* Outcomes of a call: res is "ok" or the exception raised; df, cols, file, now
\* are the state the call leaves; ret (and ret2) the rows it returns, n the number
\* it returns, rcols the columns of the frame read returns; wrote tells whether
\* the call wrote the file.

\* The call raises before it has read the clock or changed anything.
Fail(res) ==
    [res |-> res, df |-> df, cols |-> cols, file |-> file, now |-> now,
     ret |-> <<>>, ret2 |-> <<>>, n |-> 0, rcols |-> {}, wrote |-> FALSE]

\* The call raises after it has read the clock at t; nothing else has changed.
FailAt(res, t) == [Fail(res) EXCEPT !.now = t]

\* The call returns ret (and ret2) and changes nothing.
Return(ret, ret2) == [Fail("ok") EXCEPT !.ret = ret, !.ret2 = ret2]

\* The call replaces the table by (rows, cs), reads the clock at t (or not: t is
\* now), runs _save and returns ret.
Done(rows, cs, t, ret) ==
    [res |-> "ok", df |-> rows, cols |-> cs, file |-> _save(rows, cs), now |-> t,
     ret |-> ret, ret2 |-> <<>>, n |-> 0, rcols |-> {}, wrote |-> Writes(rows)]

\* The ValueErrors the manager raises itself.
ValueErrors == {"DuplicateKey", "DuplicateBatch", "NoRecords", "NotFound"}

----------------------------------------------------------------------------
\* _ensure_unique: (new_records, duplicate_keys), or polars' ColumnNotFoundError
\* when the table has rows but no unique_key column.
_ensure_unique(records) ==
    IF Len(df) = 0 \/ Len(records) = 0
    THEN [res |-> "ok", new_records |-> records, duplicate_keys |-> <<>>]
    ELSE IF unique_key \notin cols
    THEN [res |-> "ColumnNotFound", new_records |-> <<>>, duplicate_keys |-> <<>>]
    ELSE LET existing_keys == Range(KeyList(df))
             IsDup(record) == Truthy(Get(record)) /\ Get(record) \in existing_keys
             IsNew(record) == ~IsDup(record)
             dups == SelectSeq(records, IsDup)
         IN [res |-> "ok",
             new_records |-> SelectSeq(records, IsNew),
             duplicate_keys |-> [i \in 1..Len(dups) |-> Get(dups[i])]]

\* create
create(record) ==
    LET key == Get(record) IN
    IF Truthy(key) /\ Len(df) > 0 /\ unique_key \notin cols
    THEN Fail("ColumnNotFound")
    ELSE IF Truthy(key) /\ Len(df) > 0 /\ key \in Range(KeyList(df))
    THEN Fail("DuplicateKey")
    ELSE LET t == now + 1
             new_record_df == <<Stamp(record, t)>>
             rows == df \o new_record_df
             cs == cols \cup FrameCols(<<record>>)
                        \cup {CREATED_AT_COLUMN, UPDATED_AT_COLUMN}
         IN Done(rows, cs, t, new_record_df)

\* create_many
create_many(records, skip_existing) ==
    IF Len(records) = 0
    THEN Return(<<>>, <<>>)
    ELSE LET u == _ensure_unique(records) IN
         IF u.res # "ok"
         THEN Fail(u.res)
         ELSE IF Len(u.duplicate_keys) > 0 /\ ~skip_existing
         THEN Fail("DuplicateBatch")
         ELSE IF Len(u.new_records) = 0
         THEN Return(<<>>, <<>>)
         ELSE LET t == now + 1
                  new_records_df ==
                      [i \in 1..Len(u.new_records) |-> Stamp(u.new_records[i], t)]
                  rows == df \o new_records_df
                  cs == cols \cup FrameCols(u.new_records)
                             \cup {CREATED_AT_COLUMN, UPDATED_AT_COLUMN}
              IN Done(rows, cs, t, new_records_df)

----------------------------------------------------------------------------
\* The CQL-style filters. A filter is a list of entries [column, operator, value,
\* values, flag]: one entry per (column, operator) pair of the dictionary; operator
\* "scalar" is the simple form {"column": value}.

Cmp3(v, holds) == IF v = NullInt THEN "N" ELSE IF holds THEN "T" ELSE "F"

And3(a, b) ==
    IF a = "F" \/ b = "F" THEN "F" ELSE IF a = "N" \/ b = "N" THEN "N" ELSE "T"

\* One condition of _build_filter on the value v of the entry's column.
Condition(e, v) ==
    CASE e.operator \in {"scalar", "eq"} -> Cmp3(v, v = e.value)
      [] e.operator = "ne"  -> Cmp3(v, v # e.value)
      [] e.operator = "gt"  -> Cmp3(v, v > e.value)
      [] e.operator = "gte" -> Cmp3(v, v >= e.value)
      [] e.operator = "lt"  -> Cmp3(v, v < e.value)
      [] e.operator = "lte" -> Cmp3(v, v <= e.value)
      [] e.operator = "in"  -> Cmp3(v, v \in e.values)
      [] e.operator = "nin" -> Not3(Cmp3(v, v \in e.values))
      [] e.operator = "is_null" ->
            IF (v = NullInt) = e.flag THEN "T" ELSE "F"
      [] e.operator = "is_not_null" ->
            IF (v # NullInt) = e.flag THEN "T" ELSE "F"
      [] OTHER -> "T"

\* _build_filter(filters), evaluated on one row: the AND of the conditions on the
\* columns the table has; pl.lit(True) when there is none.
RECURSIVE FilterFrom(_, _, _)
FilterFrom(filters, row, i) ==
    IF i > Len(filters)
    THEN "T"
    ELSE IF filters[i].column \notin cols
         THEN FilterFrom(filters, row, i + 1)
         ELSE And3(Condition(filters[i], row[filters[i].column]),
                   FilterFrom(filters, row, i + 1))

_build_filter(filters, row) == FilterFrom(filters, row, 1)

Entry(column, operator, value) ==
    [column |-> column, operator |-> operator, value |-> value,
     values |-> {value}, flag |-> TRUE]

\* The filters callers pass.
Filters ==
    { <<>>,
      <<Entry("rent", "scalar", 1)>>,
      <<Entry("rent", "gte", 2)>>,
      <<Entry("floor", "scalar", 1)>> }

\* The updates callers pass: dictionaries column -> value.
Updates ==
    { [rent |-> 2],
      [created_at |-> MaxClock + 1],
      [updated_at |-> 0],
      [listing_url |-> "b"],
      [floor |-> 1] }

\* updates after updates[UPDATED_AT_COLUMN] = datetime.now()
WithUpdatedAt(updates, t) ==
    [c \in DOMAIN updates \cup {UPDATED_AT_COLUMN} |->
        IF c = UPDATED_AT_COLUMN THEN t ELSE updates[c]]

\* An update expression without the mask: the literal for every row.
ApplyUpdatesUnmasked(row, u, hit) ==
    [c \in DOMAIN row |-> IF c \in DOMAIN u THEN u[c] ELSE row[c]]

\* pl.when(mask).then(pl.lit(value)).otherwise(pl.col(column)) for every column of
\* updates, the other columns unchanged.
ApplyUpdates(row, u, hit) ==
    IF hit
    THEN [c \in DOMAIN row |-> IF c \in DOMAIN u THEN u[c] ELSE row[c]]
    ELSE row

\* update
update(key_value, updates) ==
    IF Len(df) = 0
    THEN Fail("NoRecords")
    ELSE IF unique_key \notin cols
    THEN Fail("ColumnNotFound")
    ELSE LET mask(row) == Eq3(row.listing_url, key_value) = "T" IN
         IF Len(SelectSeq(df, mask)) = 0
         THEN Fail("NotFound")
         ELSE LET t == now + 1
                  u == WithUpdatedAt(updates, t)
              IN IF ~(DOMAIN u \subseteq cols)
                 THEN FailAt("ColumnNotFound", t)
                 ELSE LET rows == [i \in 1..Len(df) |->
                                      ApplyUpdates(df[i], u, mask(df[i]))]
                      IN Done(rows, cols, t, SelectSeq(rows, mask))

\* update_many
update_many(filters, updates) ==
    IF Len(df) = 0
    THEN Return(<<>>, <<>>)
    ELSE LET filter_expr(row) == _build_filter(filters, row) = "T"
             t == now + 1
             u == WithUpdatedAt(updates, t)
         IN IF ~(DOMAIN u \subseteq cols)
            THEN FailAt("ColumnNotFound", t)
            ELSE LET rows == [i \in 1..Len(df) |->
                                 ApplyUpdates(df[i], u, filter_expr(df[i]))]
                 IN Done(rows, cols, t, SelectSeq(rows, filter_expr))

\* delete: ret is <<TRUE>> or <<FALSE>>, the value returned.
delete(key_value) ==
    IF Len(df) = 0
    THEN Return(<<FALSE>>, <<>>)
    ELSE IF unique_key \notin cols
    THEN Fail("ColumnNotFound")
    ELSE LET keep(row) == Not3(Eq3(row.listing_url, key_value)) = "T"
             rows == SelectSeq(df, keep)
             deleted == Len(rows) < Len(df)
         IN IF deleted
            THEN Done(rows, cols, now, <<TRUE>>)
            ELSE Return(<<FALSE>>, <<>>)

\* The call returns the number n and changes nothing.
ReturnN(n) == [Fail("ok") EXCEPT !.n = n]

\* delete_many with "elif filters is not None" for "elif filters": an empty
\* mapping selects the filter mode.
delete_many_filters_given(key_values, filters) ==
    IF Len(df) = 0
    THEN ReturnN(0)
    ELSE IF Len(key_values) > 0 /\ unique_key \notin cols
    THEN Fail("ColumnNotFound")
    ELSE LET keepKeys(row) == Not3(IsIn3(row.listing_url, Range(key_values))) = "T"
             keepFilter(row) == Not3(_build_filter(filters, row)) = "T"
             rows == IF Len(key_values) > 0
                     THEN SelectSeq(df, keepKeys)
                     ELSE SelectSeq(df, keepFilter)
             deleted == Len(df) - Len(rows)
         IN IF deleted > 0
            THEN [Done(rows, cols, now, <<>>) EXCEPT !.n = deleted]
            ELSE ReturnN(0)

\* delete_many: n is the number returned.
delete_many(key_values, filters) ==
    IF Len(df) = 0
    THEN ReturnN(0)
    ELSE IF Len(key_values) > 0 /\ unique_key \notin cols
    THEN Fail("ColumnNotFound")
    ELSE IF Len(key_values) = 0 /\ Len(filters) = 0
    THEN ReturnN(0)
    ELSE LET keepKeys(row) == Not3(IsIn3(row.listing_url, Range(key_values))) = "T"
             keepFilter(row) == Not3(_build_filter(filters, row)) = "T"
             rows == IF Len(key_values) > 0
                     THEN SelectSeq(df, keepKeys)
                     ELSE SelectSeq(df, keepFilter)
             deleted == Len(df) - Len(rows)
         IN IF deleted > 0
            THEN [Done(rows, cols, now, <<>>) EXCEPT !.n = deleted]
            ELSE ReturnN(0)

\* DataFrame.slice(offset, height): the rows after the first offset ones.
Slice(rows, offset) ==
    IF offset >= Len(rows) THEN <<>> ELSE SubSeq(rows, offset + 1, Len(rows))

\* DataFrame.limit(n): the first n rows.
Limit(rows, n) == IF n >= Len(rows) THEN rows ELSE SubSeq(rows, 1, n)

\* Python truthiness of a limit or an offset: None and 0 are false.
TruthyInt(v) == v # NullInt /\ v # 0

\* read: ret holds the rows returned, rcols the columns of the frame returned.
read(filters, columns, limit, offset) ==
    IF Len(df) = 0
    THEN Return(<<>>, <<>>)
    ELSE LET filter_expr(row) == _build_filter(filters, row) = "T"
             filtered == IF Len(filters) > 0 THEN SelectSeq(df, filter_expr) ELSE df
             sliced == IF TruthyInt(offset) THEN Slice(filtered, offset) ELSE filtered
             limited == IF TruthyInt(limit) THEN Limit(sliced, limit) ELSE sliced
             available_columns == Range(columns) \cap cols
         IN [Return(limited, <<>>) EXCEPT
                !.rcols = IF Len(columns) > 0 /\ available_columns # {}
                          THEN available_columns ELSE cols]

\* count that counts every row the filter does not reject, the rows on which it
\* is null included.
count_not_rejected(filters) ==
    LET passes(row) == _build_filter(filters, row) # "F"
    IN ReturnN(Len(SelectSeq(df, passes)))

\* count: n is the number returned.
count(filters) ==
    IF Len(filters) > 0
    THEN ReturnN(Len(read(filters, <<>>, NullInt, NullInt).ret))
    ELSE ReturnN(Len(df))

\* find_new_listings: ret is new_listings_filtered, ret2 is existing_listings.
find_new_listings(new_listings) ==
    IF Len(df) = 0
    THEN Return(FrameRows(new_listings), <<>>)
    ELSE IF unique_key \notin cols \/ unique_key \notin FrameCols(new_listings)
    THEN Fail("ColumnNotFound")
    ELSE LET existing_keys == Range(KeyList(df))
             new_mask(row) == Not3(IsIn3(row.listing_url, existing_keys)) = "T"
             old_mask(row) == Not3(Not3(IsIn3(row.listing_url, existing_keys))) = "T"
             new_listings_df == FrameRows(new_listings)
         IN Return(SelectSeq(new_listings_df, new_mask),
                   SelectSeq(new_listings_df, old_mask))

\* add_new_listings: ret is created_df; the count returned is its length.
add_new_listings(new_listings) ==
    LET found == find_new_listings(new_listings) IN
    IF found.res # "ok"
    THEN Fail(found.res)
    ELSE IF Len(found.ret) = 0
    THEN Return(<<>>, <<>>)
    ELSE create_many(ToDicts(FrameCols(new_listings), found.ret), TRUE)

\* The keys the table holds (unique_key column as a Python list would show it).
StoredKeys == Range(KeyList(df))

----------------------------------------------------------------------------
\* The state machine: one action per call of a method by the caller.

\* Key values callers pass to update and delete.
KeyArgs == KeyVals \cup {Null}

NoCall ==
    [op |-> "init", res |-> "ok", batch |-> <<>>, skip |-> FALSE, key |-> Null,
     upd |-> [updated_at |-> 0], flt |-> <<>>, keys |-> <<>>, columns |-> <<>>,
     limit |-> NullInt, offset |-> NullInt,
     ret |-> <<>>, ret2 |-> <<>>, n |-> 0, rcols |-> {}, wrote |-> FALSE]

\* The store after a call with outcome o, within the bounds of the model.
Store(o) ==
    /\ o.now <= MaxClock
    /\ Len(o.df) <= MaxRows
    /\ df' = o.df
    /\ cols' = o.cols
    /\ file' = o.file
    /\ now' = o.now
    /\ UNCHANGED suffix

\* A call by the caller ends with outcome o.
Finish(o, call) ==
    /\ Store(o)
    /\ last' = [call EXCEPT !.res = o.res, !.ret = o.ret, !.ret2 = o.ret2,
                             !.n = o.n, !.rcols = o.rcols, !.wrote = o.wrote]
    /\ UNCHANGED <<wf, pend, rd>>

\* No run of the workflow has started.
NoRun ==
    [pc |-> "idle", batch |-> <<>>, start |-> {}, diffed |-> FALSE,
     sent |-> <<>>, committed |-> <<>>]

\* No add_new_listings call is in progress.
NoAdd ==
    [pc |-> "idle", batch |-> <<>>, new |-> <<>>, ncols |-> {}, raced |-> {},
     res |-> "ok", ret |-> <<>>]

\* What a read returned or raised: the exception and the rows.
Seen(o) == [res |-> o.res, ret |-> o.ret]

\* No read call is in progress.
NoRead ==
    [pc |-> "idle", flt |-> <<>>, result |-> <<>>, rescols |-> {}, writes |-> 0,
     pre |-> Seen(Fail("ok")), post |-> Seen(Fail("ok")), out |-> Seen(Fail("ok"))]

Init ==
    /\ df = <<>>
    /\ cols = {}
    /\ file = NoFile
    /\ suffix \in {"none", ".parquet", ".csv"}
    /\ now = 0
    /\ last = NoCall
    /\ wf = NoRun
    /\ pend = NoAdd
    /\ rd = NoRead

Create ==
    \E record \in Records :
        Finish(create(record), [NoCall EXCEPT !.op = "create", !.batch = <<record>>])

CreateMany ==
    \E records \in Batches, skip_existing \in BOOLEAN :
        Finish(create_many(records, skip_existing),
               [NoCall EXCEPT !.op = "create_many", !.batch = records,
                              !.skip = skip_existing])

Update ==
    \E key_value \in KeyArgs, updates \in Updates :
        Finish(update(key_value, updates),
               [NoCall EXCEPT !.op = "update", !.key = key_value, !.upd = updates])

UpdateMany ==
    \E filters \in Filters, updates \in Updates :
        Finish(update_many(filters, updates),
               [NoCall EXCEPT !.op = "update_many", !.flt = filters, !.upd = updates])

Delete ==
    \E key_value \in KeyArgs :
        Finish(delete(key_value), [NoCall EXCEPT !.op = "delete", !.key = key_value])

\* The key lists callers pass to delete_many; <<>> is None or [].
KeyLists == { <<>>, <<"a">>, <<"b", "a">> }

DeleteMany ==
    \E key_values \in KeyLists, filters \in Filters :
        Finish(delete_many(key_values, filters),
               [NoCall EXCEPT !.op = "delete_many", !.keys = key_values,
                              !.flt = filters])

\* The column lists callers pass to read; <<>> is None or [].
ColumnLists == { <<>>, <<"rent">>, <<"floor">>, <<"floor", "rent">> }

\* The calls of read: every filter alone, every limit and offset without a filter,
\* a filter with both, and every column list.
ReadCalls ==
    { [flt |-> f, columns |-> <<>>, limit |-> NullInt, offset |-> NullInt] :
        f \in Filters }
    \cup { [flt |-> <<>>, columns |-> <<>>, limit |-> l, offset |-> o] :
             l \in {NullInt, 0, 1, 2}, o \in {NullInt, 0, 1} }
    \cup { [flt |-> <<Entry("rent", "scalar", 1)>>, columns |-> <<>>,
            limit |-> 1, offset |-> 1] }
    \cup { [flt |-> <<>>, columns |-> c, limit |-> NullInt, offset |-> NullInt] :
             c \in ColumnLists }

Read ==
    \E c \in ReadCalls :
        Finish(read(c.flt, c.columns, c.limit, c.offset),
               [NoCall EXCEPT !.op = "read", !.flt = c.flt, !.columns = c.columns,
                              !.limit = c.limit, !.offset = c.offset])

Count ==
    \E filters \in Filters :
        Finish(count(filters), [NoCall EXCEPT !.op = "count", !.flt = filters])

FindNewListings ==
    \E new_listings \in Batches :
        Finish(find_new_listings(new_listings),
               [NoCall EXCEPT !.op = "find_new_listings", !.batch = new_listings])

AddNewListings ==
    \E new_listings \in Batches :
        Finish(add_new_listings(new_listings),
               [NoCall EXCEPT !.op = "add_new_listings", !.batch = new_listings])

\* A fresh ListingsManager is constructed on the same storage_path (__init__ and
\* _load); when read_parquet raises no manager comes to exist.
Restart ==
    LET loaded == _load(file) IN
    /\ df' = IF loaded.res = "ok" THEN loaded.df ELSE df
    /\ cols' = IF loaded.res = "ok" THEN loaded.cols ELSE cols
    /\ last' = [NoCall EXCEPT !.op = "__init__", !.res = loaded.res]
    /\ UNCHANGED <<file, suffix, now, wf, pend, rd>>

Next ==
    \/ Create
    \/ CreateMany
    \/ Update
    \/ UpdateMany
    \/ Delete
    \/ DeleteMany
    \/ Read
    \/ Count
    \/ FindNewListings
    \/ AddNewListings
    \/ Restart

Spec == Init /\ [][Next]_vars

\* The create paths alone: create, create_many and add_new_listings, from the
\* empty store.
NextCreate ==
    \/ Create
    \/ CreateMany
    \/ AddNewListings

SpecCreate == Init /\ [][NextCreate]_vars

----------------------------------------------------------------------------
\* search_and_send_listings (src/main.py): wf.pc is "idle" before the first run
\* and "raised" after a run that ended with an exception. wf.batch is what
\* scrape_listings returned, wf.start the keys the store held when the run began,
\* wf.diffed tells whether the run called find_new_listings, wf.sent holds the
\* messages passed to send_message, wf.committed the rows add_new_listings added.

\* A run that goes without the diff: every scraped listing is passed to
\* send_message.
WfRunNotifiesAll ==
    \E all_listings \in Batches :
        /\ wf' = [NoRun EXCEPT !.pc = "done", !.batch = all_listings,
                               !.start = StoredKeys,
                               !.sent = KeyList(FrameRows(all_listings))]
        /\ UNCHANGED <<df, cols, file, suffix, now, last, pend, rd>>

\* One run. CrawlListings.scrape_listings (crawl_firecrawl.py) is a plain method
\* that returns a list, and "await" on a list raises TypeError: the run ends at
\* its first statement after the scrape, before find_new_listings.
WfRun ==
    \E all_listings \in Batches :
        /\ wf' = [NoRun EXCEPT !.pc = "raised", !.batch = all_listings,
                               !.start = StoredKeys]
        /\ UNCHANGED <<df, cols, file, suffix, now, last, pend, rd>>

\* The runs of the workflow on a store that other callers fill through
\* add_new_listings.
NextWorkflow ==
    \/ AddNewListings
    \/ WfRun

SpecWorkflow == Init /\ [][NextWorkflow]_vars

----------------------------------------------------------------------------
\* add_new_listings next to another writer on the same manager. pend.pc is
\* "diffed" between the return of find_new_listings and the call of create_many;
\* pend.new and pend.ncols are new_listings_df, pend.raced the keys the other
\* writer has inserted since the diff, pend.res and pend.ret the outcome.

\* add_new_listings begins: find_new_listings, and the return when nothing is new.
AddDiff ==
    /\ pend.pc # "diffed"
    /\ \E new_listings \in Batches :
          LET found == find_new_listings(new_listings)
              call == [NoAdd EXCEPT !.batch = new_listings]
          IN pend' = IF found.res # "ok"
                     THEN [call EXCEPT !.pc = "done", !.res = found.res]
                     ELSE IF Len(found.ret) = 0
                     THEN [call EXCEPT !.pc = "done"]
                     ELSE [call EXCEPT !.pc = "diffed", !.new = found.ret,
                                       !.ncols = FrameCols(new_listings)]
    /\ UNCHANGED <<df, cols, file, suffix, now, last, wf, rd>>

\* The other writer calls create, and the call returns.
WriterCreate ==
    \E record \in Records :
        LET o == create(record) IN
        /\ o.res = "ok"
        /\ Store(o)
        /\ pend' = IF pend.pc = "diffed"
                   THEN [pend EXCEPT !.raced = @ \cup {Get(record)}]
                   ELSE pend
        /\ UNCHANGED <<last, wf, rd>>

\* add_new_listings ends: create_many(new_listings_df.to_dicts(), skip_existing=True).
AddInsert ==
    /\ pend.pc = "diffed"
    /\ LET o == create_many(ToDicts(pend.ncols, pend.new), TRUE)
       IN /\ Store(o)
          /\ pend' = [pend EXCEPT !.pc = "done", !.res = o.res, !.ret = o.ret]
    /\ UNCHANGED <<last, wf, rd>>

NextAddRace ==
    \/ AddDiff
    \/ WriterCreate
    \/ AddInsert

SpecAddRace == Init /\ [][NextAddRace]_vars

----------------------------------------------------------------------------
\* read(filters) in one thread next to a writer in another. The reader reads
\* self.df three times: for len (crud.py:237), for result (240) and, in
\* _build_filter, for the columns (62). rd.pc is "checked" after the first and
\* "captured" after the second; rd.result and rd.rescols are the frame result,
\* rd.writes counts the writer's calls since the read began, rd.out is what the
\* read returns or raises, rd.pre and rd.post what read(filters) gives on the
\* table as it was when the call began and as it is when the call ends.

\* The records and the keys the writer passes.
WriterRecords == { Rec("a", 1), RecFloor("b", 1, 1) }

\* The filters the reader passes.
ReaderFilters ==
    { <<>>, <<Entry("rent", "scalar", 1)>>, <<Entry("floor", "scalar", 1)>> }

\* The writer's outcome o replaces the table in one assignment of self.df; at
\* most one call of the writer falls into a read.
Written(o) ==
    /\ o.res = "ok"
    /\ rd.pc \in {"checked", "captured"} => rd.writes = 0
    /\ Store(o)
    /\ rd' = IF rd.pc \in {"checked", "captured"}
             THEN [rd EXCEPT !.writes = 1]
             ELSE rd
    /\ UNCHANGED <<last, wf, pend>>

RdWriterCreate == \E record \in WriterRecords : Written(create(record))

RdWriterDelete == Written(delete("a"))

\* The read begins: len(self.df) == 0 returns the empty frame.
RdLen ==
    /\ rd.pc \in {"idle", "done"}
    /\ \E filters \in ReaderFilters :
          LET call == [NoRead EXCEPT
                          !.flt = filters,
                          !.pre = Seen(read(filters, <<>>, NullInt, NullInt)),
                          !.post = Seen(read(filters, <<>>, NullInt, NullInt))]
          IN rd' = IF Len(df) = 0
                   THEN [call EXCEPT !.pc = "done"]
                   ELSE [call EXCEPT !.pc = "checked"]
    /\ UNCHANGED <<df, cols, file, suffix, now, last, wf, pend>>

\* result = self.df
RdCapture ==
    /\ rd.pc = "checked"
    /\ rd' = [rd EXCEPT !.pc = "captured", !.result = df, !.rescols = cols]
    /\ UNCHANGED <<df, cols, file, suffix, now, last, wf, pend>>

\* The read ends: _build_filter tests the columns of self.df as it is now, and
\* result.filter raises on a condition over a column result does not have.
RdFilter ==
    /\ rd.pc = "captured"
    /\ LET filter_expr(row) == _build_filter(rd.flt, row) = "T"
           unknown == { i \in 1..Len(rd.flt) :
                          rd.flt[i].column \in cols \ rd.rescols }
           o == IF Len(rd.flt) = 0
                THEN Return(rd.result, <<>>)
                ELSE IF unknown # {}
                THEN Fail("ColumnNotFound")
                ELSE Return(SelectSeq(rd.result, filter_expr), <<>>)
       IN rd' = [rd EXCEPT !.pc = "done", !.out = Seen(o),
                           !.post = Seen(read(rd.flt, <<>>, NullInt, NullInt))]
    /\ UNCHANGED <<df, cols, file, suffix, now, last, wf, pend>>

NextReadRace ==
    \/ RdWriterCreate
    \/ RdWriterDelete
    \/ RdLen
    \/ RdCapture
    \/ RdFilter

SpecReadRace == Init /\ [][NextReadRace]_vars

----------------------------------------------------------------------------
\* Properties.

\* The calls that change or may change the table.
Mutators == {"create", "create_many", "update", "update_many", "delete",
             "delete_many", "add_new_listings"}

\* C1: after any sequence of create, create_many and add_new_listings calls from
\* the empty store, no two rows have equal non-null unique_key values (the empty
\* string included, repeated keys within one batch included).
C1_UniqueKeys ==
    \A i, j \in 1..Len(df) :
        (i # j /\ df[i].listing_url # Null) => df[i].listing_url # df[j].listing_url

\* C2: add_new_listings is idempotent: a second call with the same batch, right
\* after a first call that returned, returns (0, empty) and leaves the rows of
\* the table as the first call left them.
C2_AddNewIdempotent ==
    [][ ( /\ last.op = "add_new_listings" /\ last.res = "ok"
          /\ last'.op = "add_new_listings" /\ last'.batch = last.batch )
        => ( last'.res = "ok" /\ last'.ret = <<>> /\ df' = df ) ]_vars

\* C3: find_new_listings is a pure partition: it returns, every incoming record
\* is in exactly one of the two results, 'new' holds exactly the records whose
\* key no stored row has and 'existing' those whose key a stored row has, and
\* the table and the file are unchanged.
C3_FindNewPartition ==
    [][ last'.op = "find_new_listings"
        => LET incoming == FrameRows(last'.batch)
               IsNew(row) == row.listing_url \notin StoredKeys
               IsOld(row) == row.listing_url \in StoredKeys
           IN /\ last'.res = "ok"
              /\ last'.ret = SelectSeq(incoming, IsNew)
              /\ last'.ret2 = SelectSeq(incoming, IsOld)
              /\ UNCHANGED <<df, cols, file>> ]_vars

\* C4: create of a record whose non-null key a stored row already has fails with
\* the duplicate-key error and leaves the table and the file as they were.
C4_CreateDuplicateRejected ==
    [][ ( /\ last'.op = "create"
          /\ Get(last'.batch[1]) # Null
          /\ Get(last'.batch[1]) \in StoredKeys )
        => ( last'.res = "DuplicateKey" /\ UNCHANGED <<df, cols, file>> ) ]_vars

\* C5: create_many(records, skip_existing=False) with at least one record whose
\* non-null key is already stored fails with the duplicate-batch error, inserts
\* no record of the batch and leaves the table and the file as they were.
C5_CreateManyAllOrNothing ==
    [][ ( /\ last'.op = "create_many" /\ ~last'.skip
          /\ \E i \in 1..Len(last'.batch) :
                /\ Get(last'.batch[i]) # Null
                /\ Get(last'.batch[i]) \in StoredKeys )
        => ( last'.res = "DuplicateBatch" /\ UNCHANGED <<df, cols, file>> ) ]_vars

\* C6: a create_many(records, skip_existing=True) that returns inserts exactly the
\* records whose key is not stored before the call (a record without a key counts
\* as not stored), leaves the stored rows as they were, returns exactly the
\* inserted rows, and so raises count() by the number of rows returned.
C6_CreateManySkipExisting ==
    [][ ( last'.op = "create_many" /\ last'.skip /\ last'.res = "ok" )
        => LET Absent(record) == Get(record) = Null \/ Get(record) \notin StoredKeys
               accepted == SelectSeq(last'.batch, Absent)
           IN /\ Len(last'.ret) = Len(accepted)
              /\ \A i \in 1..Len(accepted) :
                    /\ last'.ret[i].listing_url = Get(accepted[i])
                    /\ last'.ret[i].rent = accepted[i].rent
              /\ df' = df \o last'.ret
              /\ Len(df') = Len(df) + Len(last'.ret) ]_vars

\* C7: durable round trip: whatever the extension of storage_path, after every
\* successful mutating call that leaves the table non-empty, a fresh store
\* constructed on the same storage_path holds the rows, columns and values of the
\* table.
C7_DurableRoundTrip ==
    ( /\ suffix # "none"
      /\ last.op \in Mutators /\ last.res = "ok"
      /\ Len(df) > 0 )
    => _load(file) = [res |-> "ok", df |-> df, cols |-> cols]

\* C8: created_at is set once, at insertion: no update or update_many call,
\* whatever its updates, changes the created_at of a row.
C8_CreatedAtImmutable ==
    [][ last'.op \in {"update", "update_many"}
        => /\ Len(df') = Len(df)
           /\ \A i \in 1..Len(df) : df'[i].created_at = df[i].created_at ]_vars

\* C9: every row has updated_at >= created_at, and every successful update leaves
\* the rows it targets with an updated_at greater than before.
C9_UpdatedAtOrder ==
    [][ /\ \A i \in 1..Len(df') : df'[i].updated_at >= df'[i].created_at
        /\ ( last'.op = "update" /\ last'.res = "ok" )
           => \A i \in 1..Len(df) :
                 Eq3(df[i].listing_url, last'.key) = "T"
                    => df'[i].updated_at > df[i].updated_at ]_vars

\* C10: update with a key value no stored row has (the store empty or not) fails
\* with the not-found error and leaves the table and the file as they were.
C10_UpdateNotFound ==
    [][ ( /\ last'.op = "update"
          /\ last'.key # Null
          /\ last'.key \notin StoredKeys )
        => ( last'.res \in {"NoRecords", "NotFound"}
             /\ UNCHANGED <<df, cols, file>> ) ]_vars

\* C11: update_many whose filter matches no row is a no-op, on the empty store
\* and on a non-empty one: it returns an empty result, changes no row of the table
\* and writes no file.
C11_UpdateManyNoMatchNoOp ==
    [][ ( /\ last'.op = "update_many"
          /\ \A i \in 1..Len(df) : _build_filter(last'.flt, df[i]) # "T" )
        => ( /\ last'.res = "ok"
             /\ last'.ret = <<>>
             /\ ~last'.wrote
             /\ UNCHANGED <<df, cols, file>> ) ]_vars

\* C12: delete_many with neither key_values nor filters (omitted, None or empty)
\* returns 0, removes no row and writes no file; an empty filter mapping never
\* deletes all rows.
C12_DeleteManyNoSelection ==
    [][ ( last'.op = "delete_many" /\ last'.keys = <<>> /\ last'.flt = <<>> )
        => ( /\ last'.res = "ok"
             /\ last'.n = 0
             /\ ~last'.wrote
             /\ UNCHANGED <<df, cols, file>> ) ]_vars

\* C12 happens: delete_many() has returned 0 on a store that holds rows and has
\* a file.
C12_Witness ==
    /\ last.op = "delete_many" /\ last.keys = <<>> /\ last.flt = <<>>
    /\ last.res = "ok" /\ last.n = 0
    /\ Len(df) > 0
    /\ file # NoFile

\* C13: delete(key_value), key_value not None, removes exactly the rows whose key
\* equals key_value and retains every other row, the rows with a null key
\* included; it returns true iff a row was removed; when no row has the key it
\* returns false, changes nothing and writes no file.
C13_DeleteExactlyKey ==
    [][ ( last'.op = "delete" /\ last'.key # Null )
        => LET other(row) == row.listing_url # last'.key
               remaining == SelectSeq(df, other)
           IN /\ last'.res = "ok"
              /\ df' = remaining
              /\ last'.ret = << Len(remaining) < Len(df) >>
              /\ Len(remaining) = Len(df)
                    => ( ~last'.wrote /\ UNCHANGED <<df, cols, file>> ) ]_vars

\* C14: delete_many(key_values=K, filters=F) with K non-empty removes exactly the
\* rows whose key is a member of K, whatever F is, retains every other row, the
\* rows with a null key included, and returns the number of rows removed.
C14_DeleteManyByKeys ==
    [][ ( last'.op = "delete_many" /\ last'.keys # <<>> )
        => LET other(row) == row.listing_url \notin Range(last'.keys)
               remaining == SelectSeq(df, other)
           IN /\ last'.res = "ok"
              /\ df' = remaining
              /\ last'.n = Len(df) - Len(remaining) ]_vars

\* C15: delete_many(filters=F) with F non-empty and no key_values removes exactly
\* the rows read(filters=F) returns in the state before the call and returns
\* count(F) of that state; the rows that do not match F, those with a null in a
\* filtered column included, remain.
C15_DeleteManyByFilter ==
    [][ ( last'.op = "delete_many" /\ last'.keys = <<>> /\ last'.flt # <<>> )
        => LET matched == Range(read(last'.flt, <<>>, NullInt, NullInt).ret)
               unmatched(row) == row \notin matched
           IN /\ last'.res = "ok"
              /\ df' = SelectSeq(df, unmatched)
              /\ last'.n = count(last'.flt).n ]_vars

\* Python's rows[lo:hi] for 0 <= lo <= hi.
PySlice(rows, lo, hi) ==
    LET top == IF hi < Len(rows) THEN hi ELSE Len(rows)
    IN IF lo >= top THEN <<>> ELSE SubSeq(rows, lo + 1, top)

\* C16: read applies offset before limit: with M the rows matching filters in
\* insertion order, the result is M[offset : offset+limit] (offset None as 0,
\* limit None as no cap), so that for every limit >= 0, 0 included, the result
\* has at most limit rows.
C16_ReadOffsetThenLimit ==
    [][ last'.op = "read"
        => LET matches(row) == _build_filter(last'.flt, row) = "T"
               M == SelectSeq(df, matches)
               lo == IF last'.offset = NullInt THEN 0 ELSE last'.offset
               hi == IF last'.limit = NullInt THEN Len(M) ELSE lo + last'.limit
           IN /\ last'.res = "ok"
              /\ last'.ret = PySlice(M, lo, hi)
              /\ last'.limit # NullInt => Len(last'.ret) <= last'.limit ]_vars

\* C17: read with a non-empty columns list returns only columns named in the
\* list, also when none of the names is a column of the table.
C17_ReadOnlyRequestedColumns ==
    [][ ( last'.op = "read" /\ last'.columns # <<>> )
        => ( last'.res = "ok" /\ last'.rcols \subseteq Range(last'.columns) ) ]_vars

\* C18: in every state, count(filters) is the number of rows of read(filters) for
\* every filter mapping, a count call returns that number, and read(filters={})
\* and count(filters=None) both give the number of rows of the table.
C18_CountIsReadLength ==
    /\ \A f \in Filters :
          /\ count(f).res = "ok"
          /\ count(f).n = Len(read(f, <<>>, NullInt, NullInt).ret)
    /\ Len(read(<<>>, <<>>, NullInt, NullInt).ret) = Len(df)
    /\ count(<<>>).n = Len(df)
    /\ last.op = "count"
          => last.n = Len(read(last.flt, <<>>, NullInt, NullInt).ret)

\* C18 happens: count has returned for a filter on the rent that matches a row,
\* rejects a row and is null on a row.
C18_Witness ==
    /\ last.op = "count" /\ last.flt = <<Entry("rent", "scalar", 1)>>
    /\ last.n > 0
    /\ \E i \in 1..Len(df) : _build_filter(last.flt, df[i]) = "F"
    /\ \E i \in 1..Len(df) : _build_filter(last.flt, df[i]) = "N"

\* A filter entry on a column no table of the model has.
AbsentEntry == Entry("garden", "scalar", 1)

\* C19: a filter entry on a column absent from the schema contributes nothing:
\* read, count, update_many and delete_many behave on F extended with such an
\* entry as on F alone, for every F, the empty one included.
C19_AbsentColumnIgnored ==
    \A f \in Filters :
        LET g == f \o <<AbsentEntry>>
        IN /\ read(g, <<>>, NullInt, NullInt) = read(f, <<>>, NullInt, NullInt)
           /\ count(g) = count(f)
           /\ \A u \in Updates : update_many(g, u) = update_many(f, u)
           /\ delete_many(<<>>, g) = delete_many(<<>>, f)

\* C20: update changes only the rows whose key equals key_value and, in them,
\* only the columns named in updates and updated_at; every other row and every
\* other value is as before, and so is the order of the rows; a call that fails
\* changes nothing.
C20_UpdateFrame ==
    [][ last'.op = "update"
        => /\ Len(df') = Len(df)
           /\ cols' = cols
           /\ last'.res # "ok" => df' = df
           /\ \A i \in 1..Len(df) :
                 /\ df[i].listing_url # last'.key => df'[i] = df[i]
                 /\ \A c \in DOMAIN df[i] \ (DOMAIN last'.upd \cup {UPDATED_AT_COLUMN}) :
                       df'[i][c] = df[i][c] ]_vars

\* C20 happens: update("a", {rent: 2}) has changed the rent of the row "a" of a
\* table that holds another row, which has another rent.
C20_Witness ==
    /\ last.op = "update" /\ last.res = "ok"
    /\ last.key = "a" /\ last.upd = [rent |-> 2]
    /\ \E i, j \in 1..Len(df) :
          /\ df[i].listing_url = "a" /\ df[i].rent = 2 /\ df[i].updated_at = now
          /\ df[j].listing_url = "b" /\ df[j].rent # 2 /\ df[j].updated_at < now

\* The rows of the frame at the positions where the mask is true, in order.
RowsAt(rows, mask) ==
    LET positions == { i \in 1..Len(rows) : mask[i] }
        Pos(i) == Cardinality({ j \in positions : j <= i })
    IN [k \in 1..Cardinality(positions) |->
           rows[CHOOSE i \in positions : Pos(i) = k]]

\* C21: update_many returns exactly the rows it updated, the rows that matched
\* filters before the call, with their values after it, also when updates
\* assigns a column that filters tests; update returns the updated row, also when
\* updates assigns the unique_key column.
C21_ReturnsUpdatedRows ==
    [][ /\ ( last'.op = "update_many" /\ last'.res = "ok" )
           => LET matched == [i \in 1..Len(df) |->
                                 _build_filter(last'.flt, df[i]) = "T"]
              IN last'.ret = RowsAt(df', matched)
        /\ ( last'.op = "update" /\ last'.res = "ok" )
           => LET target == [i \in 1..Len(df) |->
                                Eq3(df[i].listing_url, last'.key) = "T"]
              IN last'.ret = RowsAt(df', target) ]_vars

\* C22: a run of search_and_send_listings performs the diff, then one
\* notification per new record, then a single commit: every run calls
\* find_new_listings, every record it commits was passed to the notifier before,
\* and a run that ends with an exception has committed nothing.
C22_NotifyBeforeCommit ==
    wf.pc # "idle"
    => /\ wf.diffed
       /\ \A i \in 1..Len(wf.committed) :
             wf.committed[i].listing_url \in Range(wf.sent)
       /\ wf.pc = "raised" => wf.committed = <<>>

C23_AddNewSkipsRacedKey ==
    [][ ( pend.pc = "diffed" /\ pend'.pc = "done" )
        => \A k \in pend.raced \cap Range(KeyList(pend.new)) :
              k # Null
              => /\ pend'.res = "ok"
                 /\ k \notin Range(KeyList(pend'.ret))
                 /\ Cardinality({ i \in 1..Len(df') : df'[i].listing_url = k }) = 1 ]_vars

\* C24: a read interleaved with one mutating call observes the complete table
\* from before the mutation or the complete table after it: what the read
\* returns is what read(filters) gives on one of the two tables.
C24_ReadSeesPreOrPost ==
    rd.pc = "done" => rd.out \in {rd.pre, rd.post}

\* C25: when delete or delete_many removes the last rows of a store that has a
\* storage_path, the file is not rewritten: it keeps the snapshot taken before
\* the deletion, and a fresh store constructed on the same path is hydrated with
\* the rows the original store no longer holds.
C25_StaleFileAfterLastDelete ==
    [][ ( /\ last'.op \in {"delete", "delete_many"} /\ last'.res = "ok"
          /\ suffix # "none"
          /\ Len(df) > 0 /\ Len(df') = 0 )
        => ( /\ ~last'.wrote
             /\ file' = file
             /\ _load(file') = [res |-> "ok", df |-> df, cols |-> cols] ) ]_vars

====
